---- MODULE Spec2Model ----
(***************************************************************************)
(* Model of the data-cleaning pipeline (src/data_cleaning.py):             *)
(* DataCleaningPipeline discovers cleaner classes in two root directories  *)
(* and runs them; DataCleaner (src/core/base_cleaner.py) is the base class *)
(* whose overridden operations make up a cleaner's capability set.         *)
(***************************************************************************)
EXTENDS Integers, Sequences, FiniteSets, TLC

(* ----------------------------- bounds -------------------------------- *)

\* largest number of rows of a dataset in the model
MaxRows == 1
\* largest number of candidate directories present under the two roots
MaxDirs == 2

(* --------------------------- environment ----------------------------- *)

\* the two cleaner roots, in scan order (data_cleaning.py:106, 113)
Roots == {"cleaners", "external_cleaners"}

\* directory names that may exist under a root
Names == {"alpha", "_tmp", ".git"}

\* names a caller may pass to run_cleaner: "ghost" is never a directory
QueryNames == Names \cup {"ghost"}

\* str.startswith(ch) for the names of the model
startswith(name, ch) ==
    CASE name = "_tmp" -> ch = "_"
      [] name = ".git" -> ch = "."
      [] OTHER -> FALSE

\* the four optional operations of DataCleaner
Operations == {"download_to_df", "download_to_path", "clean_from_df", "clean_from_path"}

\* a cleaner class is identified by the root it was imported from and by the
\* set of base operations it overrides
CleanerClasses == [root : Roots, overrides : SUBSET Operations]

\* what importing <root>/<name>/data_cleaner.py can lead to in _try_load_cleaner
LoadOutcomes ==
    {"ok",                \* module imported, has a Cleaner class
     "no_class",          \* module imported, no Cleaner attribute
     "no_module",         \* ModuleNotFoundError: No module named 'x'
     "import_error",      \* ImportError with another message
     "import_unquoted",   \* ImportError("No module named x"), raised by the module itself
     "other_error",       \* any other Exception during import (SyntaxError, ...)
     "missing_deps"}      \* _check_requirements reports missing packages

\* import outcomes of a candidate: a built-in directory whose name starts with
\* a dot gives the module name "cleaners..x.data_cleaner", which the import
\* system rejects with ModuleNotFoundError before any user code runs
PossibleOutcomes(root, name) ==
    IF root = "cleaners" /\ startswith(name, ".")
    THEN {"no_module", "missing_deps"}
    ELSE LoadOutcomes

VARIABLES
    dirs,                   \* dirs[root]: the immediate subdirectories of the root
    phase,                  \* position inside __init__ / _discover_cleaners, then "ready"
    todo,                   \* directories of the current root not yet iterated
    load_status,            \* load_status[root][name]: what _try_load_cleaner found
    _discovered_cleaners,   \* the registry: name -> cleaner class
    sys_path_ext,           \* external_cleaners is on sys.path
    init_py,                \* external directories holding an __init__.py
    last,                   \* the last run_cleaner call and its result
    persisted,              \* names n whose <n>_cleaned.csv has been written
    cleaner,                \* a cleaner instance and the probes made on it
    framework,              \* tests.test_framework.TestRunner and its last report
    runner,                 \* tests.test_runner.TestRunner and its last report
    batch                   \* the run_multiple call in progress

vars == <<dirs, phase, todo, load_status, _discovered_cleaners, sys_path_ext,
          init_py, last, persisted, cleaner, framework, runner, batch>>

NoRun == [kind |-> "NoRun"]

\* a component that takes no part in the specification at hand
Idle == [kind |-> "Idle"]

Init ==
    /\ dirs \in [Roots -> SUBSET Names]
    /\ Cardinality(dirs["cleaners"]) + Cardinality(dirs["external_cleaners"]) <= MaxDirs
    /\ phase = "scan_builtin"
    /\ todo = dirs["cleaners"]
    /\ load_status = [r \in Roots |-> [n \in Names |-> "unscanned"]]
    /\ _discovered_cleaners = <<>>
    /\ sys_path_ext = FALSE
    /\ init_py \in SUBSET dirs["external_cleaners"]
    /\ last = NoRun
    /\ persisted = {}
    /\ cleaner = Idle
    /\ framework = Idle
    /\ runner = Idle
    /\ batch = Idle

(* ----------------------------- discovery ------------------------------ *)

\* registration that keeps an entry already present (dict.setdefault)
RegisterKeepFirst(reg, name, cls) ==
    [n \in (DOMAIN reg) \cup {name} |-> IF n \in DOMAIN reg THEN reg[n] ELSE cls]

\* self._discovered_cleaners[cleaner_name] = cleaner_class
Register(reg, name, cls) ==
    [n \in (DOMAIN reg) \cup {name} |-> IF n = name THEN cls ELSE reg[n]]

\* what the pipeline has learnt about a candidate after _try_load_cleaner
StatusOf(outcome) ==
    IF outcome \in {"ok", "missing_deps"} THEN outcome ELSE "failed"

\* the except clauses of _try_load_cleaner: TRUE when the handler itself
\* raises, so that the exception leaves _try_load_cleaner
HandlerRaises(outcome) ==
    \* error_msg.split("'")[1] on a message without a quote: IndexError
    outcome = "import_unquoted"

\* _try_load_cleaner(cleaner_name, base_path) for a given import outcome
TryLoadCleaner(root, name, outcome, cls) ==
    /\ load_status' = [load_status EXCEPT ![root][name] = StatusOf(outcome)]
    /\ IF outcome = "missing_deps"
       THEN UNCHANGED <<sys_path_ext, init_py, _discovered_cleaners, phase>>
       ELSE /\ IF root = "external_cleaners"
               THEN /\ init_py' = init_py \cup {name}
                    /\ sys_path_ext' = TRUE
               ELSE UNCHANGED <<init_py, sys_path_ext>>
            /\ _discovered_cleaners' =
                   IF outcome = "ok"
                   THEN Register(_discovered_cleaners, name, cls)
                   ELSE _discovered_cleaners
            /\ phase' = IF HandlerRaises(outcome) THEN "crashed" ELSE phase

\* the filter of the first loop of _discover_cleaners
BuiltinCandidate(name) == ~startswith(name, "_")

\* the filter of the second loop of _discover_cleaners
ExternalCandidate(name) == ~startswith(name, ".")

\* one iteration of "for cleaner_path in cleaners_dir.iterdir()"
ScanBuiltin ==
    /\ phase = "scan_builtin"
    /\ \E name \in todo :
         /\ todo' = todo \ {name}
         /\ IF BuiltinCandidate(name)
            THEN \E outcome \in PossibleOutcomes("cleaners", name),
                    ov \in SUBSET Operations :
                      TryLoadCleaner("cleaners", name, outcome,
                                     [root |-> "cleaners", overrides |-> ov])
            ELSE UNCHANGED <<load_status, sys_path_ext, init_py,
                             _discovered_cleaners, phase>>
    /\ UNCHANGED <<dirs, last, persisted, cleaner, framework, runner, batch>>

\* the first loop is exhausted: go on with the external root
EndBuiltin ==
    /\ phase = "scan_builtin"
    /\ todo = {}
    /\ phase' = "scan_external"
    /\ todo' = dirs["external_cleaners"]
    /\ UNCHANGED <<dirs, load_status, _discovered_cleaners, sys_path_ext,
                   init_py, last, persisted, cleaner, framework, runner, batch>>

\* one iteration of "for cleaner_path in external_dir.iterdir()"
ScanExternal ==
    /\ phase = "scan_external"
    /\ \E name \in todo :
         /\ todo' = todo \ {name}
         /\ IF ExternalCandidate(name)
            THEN \E outcome \in PossibleOutcomes("external_cleaners", name),
                    ov \in SUBSET Operations :
                      TryLoadCleaner("external_cleaners", name, outcome,
                                     [root |-> "external_cleaners", overrides |-> ov])
            ELSE UNCHANGED <<load_status, sys_path_ext, init_py,
                             _discovered_cleaners, phase>>
    /\ UNCHANGED <<dirs, last, persisted, cleaner, framework, runner, batch>>

\* the second loop is exhausted: __init__ returns the pipeline
EndExternal ==
    /\ phase = "scan_external"
    /\ todo = {}
    /\ phase' = "ready"
    /\ UNCHANGED <<dirs, todo, load_status, _discovered_cleaners, sys_path_ext,
                   init_py, last, persisted, cleaner, framework, runner, batch>>

(* ------------------------------ datasets ------------------------------ *)

\* None, and the marker of an operation that raised instead of returning
NoValue == [kind |-> "None"]
Raised == [kind |-> "Raise"]

\* a pandas DataFrame, by its number of rows
Frames == [kind : {"DataFrame"}, rows : 0..MaxRows]

\* a pathlib.Path, with the number of lines of the delimited file it points
\* to: the header line and one line per row (lines = 0: an empty file)
Paths == [kind : {"Path"}, lines : 0..(MaxRows + 1)]

\* what a download operation can hand back: the annotations are not enforced,
\* so any object (a str path, an array) is possible
Values == Frames \cup Paths \cup {[kind |-> "Other"]}

\* pd.read_csv(path): the first line is the header, every further line a row;
\* raises EmptyDataError when there is no header to parse
ReadCsv(path) ==
    IF path.lines = 0
    THEN Raised
    ELSE [kind |-> "DataFrame", rows |-> path.lines - 1]

(* ----------------------------- run_cleaner ---------------------------- *)

\* DataCleaner.get_capabilities: a flag per operation, true when the class
\* attribute differs from the base class attribute
get_capabilities(cls) == [op \in Operations |-> op \in cls.overrides]

\* list_cleaners(): the keys of the registry
Available == DOMAIN _discovered_cleaners

\* list_cleaners(include_unavailable=True)['unavailable']
Unavailable ==
    {n \in dirs["cleaners"] \cup dirs["external_cleaners"] : ~startswith(n, "_")}
        \ Available

\* the directory run_cleaner looks the requirements up in
CleanerPath(name) ==
    IF name \in dirs["cleaners"] THEN "cleaners" ELSE "external_cleaners"

\* SelectDownload with the preference test dropped: memory whenever it exists
SelectDownloadPreferMemory(capabilities, use_disk) ==
    IF capabilities["download_to_df"] THEN "download_to_df"
    ELSE IF use_disk /\ capabilities["download_to_path"] THEN "download_to_path"
    ELSE "none"

\* the download branch of run_cleaner (the if / elif / else at the top of the try)
SelectDownload(capabilities, use_disk) ==
    IF use_disk /\ capabilities["download_to_path"] THEN "download_to_path"
    ELSE IF capabilities["download_to_df"] THEN "download_to_df"
    ELSE "none"

\* SelectClean that falls back to clean_from_path for an in-memory dataset
SelectCleanFallback(data_ref, capabilities) ==
    IF data_ref.kind = "Path" /\ capabilities["clean_from_path"] THEN "clean_from_path"
    ELSE IF data_ref.kind = "DataFrame" /\ capabilities["clean_from_df"] THEN "clean_from_df"
    ELSE IF data_ref.kind = "Path" /\ capabilities["clean_from_df"] THEN "read_csv"
    ELSE IF data_ref.kind = "DataFrame" /\ capabilities["clean_from_path"] THEN "clean_from_path"
    ELSE "none"

\* SelectClean with the first two branches tested in the other order and the
\* path branch of clean_from_df taken first
SelectCleanPreferMemory(data_ref, capabilities) ==
    IF data_ref.kind = "DataFrame" /\ capabilities["clean_from_df"] THEN "clean_from_df"
    ELSE IF data_ref.kind = "Path" /\ capabilities["clean_from_df"] THEN "read_csv"
    ELSE IF data_ref.kind = "Path" /\ capabilities["clean_from_path"] THEN "clean_from_path"
    ELSE "none"

\* SelectClean that does not look at the clean capabilities of the cleaner
SelectCleanUnchecked(data_ref, capabilities) ==
    IF data_ref.kind = "Path" THEN "clean_from_path"
    ELSE IF data_ref.kind = "DataFrame" THEN "clean_from_df"
    ELSE "none"

\* the clean branch of run_cleaner
SelectClean(data_ref, capabilities) ==
    IF data_ref.kind = "Path" /\ capabilities["clean_from_path"] THEN "clean_from_path"
    ELSE IF data_ref.kind = "DataFrame" /\ capabilities["clean_from_df"] THEN "clean_from_df"
    ELSE IF data_ref.kind = "Path" /\ capabilities["clean_from_df"] THEN "read_csv"
    ELSE "none"

Call(r, op) == [r EXCEPT !.calls = Append(@, op)]

\* an except block that logs and raises again
CaughtReraise(r, err) == [r EXCEPT !.logged = err, !.raised = err]

\* "except Exception as e": the error is logged and None is returned
Caught(r, err) == [r EXCEPT !.logged = err, !.result = NoValue]

\* Each block of the try body is given as the set of ways in which the run
\* can end from there: the operations of the cleaner, the test runner and the
\* file system either return one of their possible values or raise.

\* cleaned_df.to_csv(output_path), return cleaned_df
Persist(r) ==
    {[Call(r, "to_csv") EXCEPT !.saved = TRUE, !.result = r.cleaned_df],
     Caught(Call(r, "to_csv"), "OSError")}

\* AfterTests without the test_only branch
AfterTestsAlwaysPersist(r, passed) ==
    IF ~passed
    THEN {[r EXCEPT !.logged = "tests_failed"]}
    ELSE Persist(r)

\* what follows test_runner.run_tests, given test_results['passed']
AfterTests(r, passed) ==
    IF r.test_only
    THEN {IF passed THEN [r EXCEPT !.result = r.cleaned_df] ELSE r}
    ELSE IF ~passed
         THEN {[r EXCEPT !.logged = "tests_failed"]}
         ELSE Persist(r)

\* test_results = self.test_runner.run_tests(cleaner_name, cleaned_df)
RunTests(r) ==
    LET r1 == Call(r, "run_tests") IN
    {Caught(r1, "TestError")}
        \cup AfterTests([r1 EXCEPT !.tests_passed = "True"], TRUE)
        \cup AfterTests([r1 EXCEPT !.tests_passed = "False"], FALSE)

\* if not cleaner.validate_output(cleaned_df): return None
ValidateOutput(r) ==
    LET r1 == Call(r, "validate_output") IN
    {Caught(r1, "UserError"),
     [r1 EXCEPT !.valid = "False", !.logged = "validation_failed"]}
        \cup RunTests([r1 EXCEPT !.valid = "True"])

\* the call of a clean operation on arg
InvokeClean(r, op, arg) ==
    LET r1 == [Call(r, op) EXCEPT !.clean_arg = arg] IN
    {Caught(r1, "UserError")}
        \cup UNION {ValidateOutput([r1 EXCEPT !.cleaned_df = cl]) : cl \in Frames}

\* the "Clean data" block
CleanData(r) ==
    LET sel == SelectClean(r.data_ref, r.capabilities) IN
    IF sel = "none" THEN {Caught(r, "NotImplementedError")}
    ELSE IF sel = "read_csv"
         THEN IF ReadCsv(r.data_ref) = Raised
              THEN {Caught(Call(r, "read_csv"), "ReadError")}
              ELSE InvokeClean(Call(r, "read_csv"), "clean_from_df",
                               ReadCsv(r.data_ref))
         ELSE InvokeClean(r, sel, r.data_ref)

\* a download block that looks at the clean capabilities before it downloads
DownloadDataCleanChecked(r) ==
    LET sel == SelectDownload(r.capabilities, r.use_disk) IN
    IF sel = "none" \/ (~r.capabilities["clean_from_df"]
                          /\ ~r.capabilities["clean_from_path"])
    THEN {Caught(r, "NotImplementedError")}
    ELSE LET r1 == IF sel = "download_to_path"
                   THEN Call(Call(r, "mkdir"), sel)
                   ELSE Call(r, sel)
         IN {Caught(r1, "UserError")}
                \cup UNION {CleanData([r1 EXCEPT !.data_ref = dl]) : dl \in Values}

\* the "Download data" block
DownloadData(r) ==
    LET sel == SelectDownload(r.capabilities, r.use_disk) IN
    IF sel = "none" THEN {Caught(r, "NotImplementedError")}
    ELSE LET r1 == IF sel = "download_to_path"
                   THEN Call(Call(r, "mkdir"), sel)
                   ELSE Call(r, sel)
         IN {Caught(r1, "UserError")}
                \cup UNION {CleanData([r1 EXCEPT !.data_ref = dl]) : dl \in Values}

\* the record of a run_cleaner call before its first statement
NewRun(name, use_disk, test_only) ==
    [kind |-> "Run", cleaner_name |-> name, use_disk |-> use_disk,
     test_only |-> test_only, capabilities |-> NoValue, calls |-> <<>>,
     data_ref |-> NoValue, clean_arg |-> NoValue, cleaned_df |-> NoValue,
     result |-> NoValue, raised |-> "none", logged |-> "none",
     message |-> NoValue, saved |-> FALSE,
     \* what validate_output returned and test_results['passed'], once known
     valid |-> "unset", tests_passed |-> "unset"]

\* _check_requirements(...)["success"] for the directory of a name that is
\* not registered: what discovery found there, or either answer for a
\* directory discovery never looked at
RequirementsOk(root, name) ==
    IF load_status[root][name] = "unscanned"
    THEN BOOLEAN
    ELSE {load_status[root][name] # "missing_deps"}

\* the lookup at the head of run_cleaner, for a name that is not registered
NotRegistered(r) ==
    IF r.cleaner_name \in Unavailable
    THEN {IF ok
          THEN \* req_check['install_command'] on a successful check
               [r EXCEPT !.raised = "KeyError"]
          ELSE [r EXCEPT !.raised = "ValueError",
                         !.message = [kind |-> "missing_dependencies"]]
            : ok \in RequirementsOk(CleanerPath(r.cleaner_name), r.cleaner_name)}
    ELSE {[r EXCEPT !.raised = "ValueError",
                    !.message = [kind |-> "not_found", available |-> Available]]}

\* the try block of run_cleaner for a registered name
Registered(r) ==
    LET cls == _discovered_cleaners[r.cleaner_name]
        r1 == [Call(Call(r, "__init__"), "get_capabilities")
                 EXCEPT !.capabilities = get_capabilities(cls)]
    IN DownloadData(r1)

\* run_cleaner(cleaner_name, use_disk, test_only): every way the call can end
RunCleanerResults(name, use_disk, test_only) ==
    IF name \notin DOMAIN _discovered_cleaners
    THEN NotRegistered(NewRun(name, use_disk, test_only))
    ELSE Registered(NewRun(name, use_disk, test_only))

InCalls(r, op) == \E i \in DOMAIN r.calls : r.calls[i] = op

\* a call run_cleaner(name, use_disk, test_only) on the constructed pipeline,
\* for a name of the given set
RunCleaner(names) ==
    /\ phase = "ready"
    /\ \E name \in names, use_disk \in BOOLEAN, test_only \in BOOLEAN :
         \E r \in RunCleanerResults(name, use_disk, test_only) :
            /\ last' = r
            /\ persisted' = IF r.saved THEN persisted \cup {name} ELSE persisted
    /\ UNCHANGED <<dirs, phase, todo, load_status, _discovered_cleaners,
                   sys_path_ext, init_py, cleaner, framework, runner, batch>>

\* run_cleaner called with any name
run_cleaner == RunCleaner(QueryNames)

\* run_cleaner called with a name that discovery did not register
run_cleaner_unknown == RunCleaner(QueryNames \ DOMAIN _discovered_cleaners)

(* --------------------------- specifications --------------------------- *)

\* Construction of the pipeline over any file system of up to MaxDirs
\* candidate directories, followed by calls for names that are not registered.
Next ==
    \/ ScanBuiltin
    \/ EndBuiltin
    \/ ScanExternal
    \/ EndExternal
    \/ run_cleaner_unknown

Spec == Init /\ [][Next]_vars

\* The pipeline as constructed over a file system whose only candidate is the
\* directory "alpha" of one root, holding a loadable Cleaner class with any set
\* of overridden operations; then any calls of run_cleaner.
InitRun ==
    \E root \in Roots, ov \in SUBSET Operations :
        /\ dirs = [r \in Roots |-> IF r = root THEN {"alpha"} ELSE {}]
        /\ phase = "ready"
        /\ todo = {}
        /\ load_status = [r \in Roots |-> [n \in Names |->
                             IF r = root /\ n = "alpha" THEN "ok" ELSE "unscanned"]]
        /\ _discovered_cleaners =
               Register(<<>>, "alpha", [root |-> root, overrides |-> ov])
        /\ sys_path_ext = (root = "external_cleaners")
        /\ init_py = IF root = "external_cleaners" THEN {"alpha"} ELSE {}
        /\ last = NoRun
        /\ persisted = {}
        /\ cleaner = Idle
        /\ framework = Idle
        /\ runner = Idle
        /\ batch = Idle

NextRun == run_cleaner

SpecRun == InitRun /\ [][NextRun]_vars

(* ------------------------------ properties ---------------------------- *)

IsDownload(op) == op \in {"download_to_df", "download_to_path"}
IsClean(op) == op \in {"clean_from_df", "clean_from_path"}

\* the download / clean operations a run invoked, in order
DownloadCalls(r) == SelectSeq(r.calls, IsDownload)
CleanCalls(r) == SelectSeq(r.calls, IsClean)

\* the last call was a run of a registered cleaner: it was instantiated and
\* its capabilities were probed
Probed == last.kind = "Run" /\ InCalls(last, "get_capabilities")

\* the operation a run invoked last
LastCall(r) == r.calls[Len(r.calls)]

\* C1: a cleaner whose capability set holds exactly one download operation
\* has that operation, and only it, invoked by run_cleaner, for use_disk true
\* and for use_disk false.
C1_SingleDownloadUsed ==
    Probed =>
        /\ (last.capabilities["download_to_df"] /\ ~last.capabilities["download_to_path"]
               => DownloadCalls(last) = <<"download_to_df">>)
        /\ (last.capabilities["download_to_path"] /\ ~last.capabilities["download_to_df"]
               => DownloadCalls(last) = <<"download_to_path">>)

\* C2: a cleaner implementing both download operations has download_to_path
\* invoked when use_disk is true and download_to_df when it is false, and no
\* other download operation in the same run.
C2_BothDownloads ==
    Probed /\ last.capabilities["download_to_df"] /\ last.capabilities["download_to_path"]
        => DownloadCalls(last) =
               <<IF last.use_disk THEN "download_to_path" ELSE "download_to_df">>

C2_Witness ==
    /\ Probed
    /\ last.capabilities["download_to_df"] /\ last.capabilities["download_to_path"]
    /\ last.use_disk
    /\ DownloadCalls(last) = <<"download_to_path">>
    /\ last.data_ref.kind = "Path"

\* C3: when the download returned an in-memory dataset and the cleaner does
\* not implement clean_from_df, the run ends in the capability failure
\* (NotImplementedError, no dataset returned, nothing saved) and no clean
\* operation is invoked, clean_from_path included.
C3_NoFallbackFromMemory ==
    Probed /\ last.data_ref.kind = "DataFrame" /\ ~last.capabilities["clean_from_df"]
        => /\ last.logged = "NotImplementedError"
           /\ last.result = NoValue
           /\ ~last.saved
           /\ CleanCalls(last) = <<>>
           /\ IsDownload(LastCall(last))

C3_Witness ==
    /\ Probed
    /\ last.data_ref.kind = "DataFrame"
    /\ ~last.capabilities["clean_from_df"]
    /\ last.capabilities["clean_from_path"]
    /\ last.logged = "NotImplementedError"

\* C4: when the download returned a path, clean_from_path is invoked on it if
\* the cleaner implements it (also when clean_from_df exists); otherwise, if
\* clean_from_df is implemented, the path is read with read_csv and
\* clean_from_df is invoked on the frame read (a read that raises ends the
\* run); otherwise the run ends in the capability failure. A run that returns
\* a dataset invoked exactly one clean operation.
C4_CleanForPath ==
    /\ Probed /\ last.data_ref.kind = "Path" =>
          /\ last.capabilities["clean_from_path"] =>
                /\ CleanCalls(last) = <<"clean_from_path">>
                /\ last.clean_arg = last.data_ref
                /\ ~InCalls(last, "read_csv")
          /\ ~last.capabilities["clean_from_path"] /\ last.capabilities["clean_from_df"] =>
                /\ InCalls(last, "read_csv")
                /\ IF ReadCsv(last.data_ref) = Raised
                   THEN CleanCalls(last) = <<>> /\ last.logged = "ReadError"
                   ELSE /\ CleanCalls(last) = <<"clean_from_df">>
                        /\ last.clean_arg = ReadCsv(last.data_ref)
          /\ ~last.capabilities["clean_from_path"] /\ ~last.capabilities["clean_from_df"] =>
                /\ CleanCalls(last) = <<>>
                /\ last.logged = "NotImplementedError"
                /\ last.result = NoValue
    /\ last.kind = "Run" /\ last.result # NoValue => Len(CleanCalls(last)) = 1

C4_Witness ==
    /\ Probed
    /\ last.data_ref.kind = "Path"
    /\ ~last.capabilities["clean_from_path"] /\ last.capabilities["clean_from_df"]
    /\ CleanCalls(last) = <<"clean_from_df">>
    /\ last.clean_arg = ReadCsv(last.data_ref)
    /\ last.result # NoValue

\* C5: a cleaner overriding exactly download_to_path and clean_from_df is run
\* through the load-then-clean fallback for either value of use_disk: the
\* download to disk is invoked, the path it returns is read and cleaned in
\* memory, and a returned dataset is clean_from_df of the frame read from
\* that path.
C5_LoadThenClean ==
    Probed /\ last.capabilities["download_to_path"] /\ last.capabilities["clean_from_df"]
           /\ ~last.capabilities["download_to_df"] /\ ~last.capabilities["clean_from_path"]
        => /\ DownloadCalls(last) = <<"download_to_path">>
           /\ (last.data_ref.kind = "Path" =>
                  InCalls(last, "read_csv") /\ ~InCalls(last, "clean_from_path"))
           /\ (last.result # NoValue =>
                  /\ last.clean_arg = ReadCsv(last.data_ref)
                  /\ CleanCalls(last) = <<"clean_from_df">>
                  /\ last.result = last.cleaned_df)

\* a cleaner without any download operation or without any clean operation
NotRunnable(capabilities) ==
    \/ ~capabilities["download_to_df"] /\ ~capabilities["download_to_path"]
    \/ ~capabilities["clean_from_df"] /\ ~capabilities["clean_from_path"]

\* C6 as claimed: a run of a cleaner with no download operation or no clean
\* operation always ends in the capability failure, never in another failure
\* or in a success; no dataset is returned and nothing is saved.
C6_AlwaysCapabilityFailure ==
    Probed /\ NotRunnable(last.capabilities)
        => /\ last.logged = "NotImplementedError"
           /\ last.result = NoValue
           /\ ~last.saved

\* C6 as amended: a run of a cleaner with no download operation or no clean
\* operation returns no dataset, saves nothing and invokes no clean
\* operation; it ends in the capability failure unless the download operation
\* it selected raised first, in which case it ends in that failure.
C6_NeverRuns ==
    Probed /\ NotRunnable(last.capabilities)
        => /\ last.result = NoValue
           /\ ~last.saved
           /\ last.raised = "none"
           /\ CleanCalls(last) = <<>>
           /\ IF last.logged = "UserError"
              THEN IsDownload(LastCall(last)) /\ last.data_ref = NoValue
              ELSE last.logged = "NotImplementedError"

C6_Witness ==
    /\ Probed
    /\ ~last.capabilities["clean_from_df"] /\ ~last.capabilities["clean_from_path"]
    /\ last.capabilities["download_to_path"]
    /\ last.data_ref.kind = "Path"
    /\ last.logged = "NotImplementedError"

\* the download or the clean operation invoked by the last run raised
UserOperationRaised ==
    /\ Probed
    /\ last.logged = "UserError"
    /\ IsDownload(LastCall(last)) \/ IsClean(LastCall(last))

\* C7 as claimed: when the download or clean operation of the cleaner raises,
\* run_cleaner raises to its caller and does not return normally.
C7_FailurePropagates ==
    UserOperationRaised => last.raised # "none"

\* C7 as amended: when the download or clean operation of the cleaner raises,
\* run_cleaner logs the failure with the cleaner's name and returns None to
\* its caller: no exception leaves run_cleaner, and nothing is validated,
\* tested or saved after the failing operation.
C7_FailureLoggedNoneReturned ==
    UserOperationRaised
        => /\ last.raised = "none"
           /\ last.result = NoValue
           /\ last.cleaner_name \in DOMAIN _discovered_cleaners
           /\ ~last.saved
           /\ ~InCalls(last, "validate_output")
           /\ ~InCalls(last, "run_tests")
           /\ ~InCalls(last, "to_csv")

C7_Witness ==
    /\ UserOperationRaised
    /\ IsClean(LastCall(last))
    /\ last.data_ref # NoValue

\* C8: a call of run_cleaner with a name that is not a key of the registry
\* raises the not-found ValueError whose message lists the available names,
\* whether or not a directory of that name exists; no cleaner is instantiated.
C8_NotFoundListsAvailable ==
    last.kind = "Run" /\ last.cleaner_name \notin DOMAIN _discovered_cleaners
        => /\ last.raised = "ValueError"
           /\ last.message = [kind |-> "not_found", available |-> Available]
           /\ last.calls = <<>>

\* C9: _discover_cleaners never raises, whatever way a candidate fails to
\* load, and once it is done every candidate that loaded is registered.
C9_DiscoveryIsolated ==
    /\ phase # "crashed"
    /\ phase = "ready" =>
          \A root \in Roots, n \in Names :
              load_status[root][n] = "ok" => n \in DOMAIN _discovered_cleaners

\* C10: when both roots hold a loadable cleaner of the same name, the
\* registry entry of that name after discovery is the class of the external
\* root.
C10_LastRootWins ==
    phase = "ready" =>
        \A n \in Names :
            load_status["cleaners"][n] = "ok" /\ load_status["external_cleaners"][n] = "ok"
                => /\ n \in DOMAIN _discovered_cleaners
                   /\ _discovered_cleaners[n].root = "external_cleaners"

C10_Witness ==
    /\ phase = "ready"
    /\ \E n \in Names :
          /\ load_status["cleaners"][n] = "ok"
          /\ load_status["external_cleaners"][n] = "ok"
          /\ _discovered_cleaners[n].root = "external_cleaners"

\* the class implements at least one download and at least one clean operation
Runnable(cls) ==
    /\ \E op \in cls.overrides : IsDownload(op)
    /\ \E op \in cls.overrides : IsClean(op)

\* C11: a name is a key of the registry only if its class implements at
\* least one download operation and at least one clean operation; a candidate
\* whose Cleaner class overrides none of the four operations is not registered.
C11_RegisteredAreRunnable ==
    \A n \in DOMAIN _discovered_cleaners : Runnable(_discovered_cleaners[n])

(* -------------------------- capability probes -------------------------- *)

\* largest number of get_capabilities calls made on one instance
MaxProbes == 3

\* the formats get_capabilities of BaseCleaner tries, in order
Formats == <<"dataframe", "array">>

\* the operations of BaseCleaner that a subclass may leave to the base class
OptionalOperations == {"download_to_path", "clean_from_path"}

\* the abstract operations of BaseCleaner: every concrete class overrides them
AbstractOperations == {"get_metadata", "download_data", "clean_data"}

\* concrete subclasses of DataCleaner: any set of overridden operations
DataCleanerClasses ==
    [base : {"DataCleaner"}, overrides : SUBSET Operations, accepts : {{}}]

\* concrete subclasses of BaseCleaner: the abstract operations, any optional
\* ones, and the set of formats for which download_data returns
BaseCleanerClasses ==
    [base : {"BaseCleaner"},
     overrides : {AbstractOperations \cup opt : opt \in SUBSET OptionalOperations},
     accepts : SUBSET {Formats[i] : i \in DOMAIN Formats}]

\* the formats of a sequence for which download_data returned
Supported(fmts, accepts) ==
    SelectSeq(fmts, LAMBDA f : f \in accepts)

\* BaseCleaner.get_capabilities(): the mapping it returns
BaseCapabilities(cls) ==
    [download_data |-> TRUE,
     supported_formats |-> Supported(Formats, cls.accepts),
     \* hasattr(self, m) and callable(self.m): the method exists on every instance
     clean_data |-> TRUE,
     clean_from_path |-> TRUE]

\* the operations BaseCleaner.get_capabilities() invokes on the instance
BaseProbeCalls == [i \in DOMAIN Formats |-> "download_data"]

\* an instance of the class, not yet probed
NewCleaner(cls) ==
    [kind |-> "Cleaner", cls |-> cls, probes |-> 0, invoked |-> <<>>,
     capabilities |-> <<>>]

InitProbe ==
    /\ cleaner \in {NewCleaner(cls) : cls \in DataCleanerClasses \cup BaseCleanerClasses}
    /\ dirs = [r \in Roots |-> {}]
    /\ phase = "ready"
    /\ todo = {}
    /\ load_status = [r \in Roots |-> [n \in Names |-> "unscanned"]]
    /\ _discovered_cleaners = <<>>
    /\ sys_path_ext = FALSE
    /\ init_py = {}
    /\ last = NoRun
    /\ persisted = {}
    /\ framework = Idle
    /\ runner = Idle
    /\ batch = Idle

\* cleaner.get_capabilities() on an instance of a DataCleaner subclass
ProbeDataCleaner ==
    /\ cleaner.cls.base = "DataCleaner"
    /\ cleaner.probes < MaxProbes
    /\ cleaner' = [cleaner EXCEPT !.probes = @ + 1,
                                  !.capabilities = get_capabilities(cleaner.cls)]
    /\ UNCHANGED <<dirs, phase, todo, load_status, _discovered_cleaners,
                   sys_path_ext, init_py, last, persisted, framework, runner, batch>>

\* cleaner.get_capabilities() on an instance of a BaseCleaner subclass
ProbeBaseCleaner ==
    /\ cleaner.cls.base = "BaseCleaner"
    /\ cleaner.probes < MaxProbes
    /\ cleaner' = [cleaner EXCEPT !.probes = @ + 1,
                                  !.invoked = @ \o BaseProbeCalls,
                                  !.capabilities = BaseCapabilities(cleaner.cls)]
    /\ UNCHANGED <<dirs, phase, todo, load_status, _discovered_cleaners,
                   sys_path_ext, init_py, last, persisted, framework, runner, batch>>

NextProbe == ProbeDataCleaner \/ ProbeBaseCleaner

\* Instances of any concrete cleaner class of either base, probed repeatedly.
SpecProbe == InitProbe /\ [][NextProbe]_vars

\* the capability flags of a probe result: its boolean entries
Flags(capabilities) == (DOMAIN capabilities) \ {"supported_formats"}

\* C12: get_capabilities is pure inspection: it invokes no download or clean
\* operation of the instance, and each flag it returns is true exactly when
\* the concrete class overrides the corresponding base operation.
C12_ProbeIsPureInspection ==
    cleaner.probes > 0 =>
        /\ cleaner.invoked = <<>>
        /\ \A op \in Flags(cleaner.capabilities) :
               cleaner.capabilities[op] <=> op \in cleaner.cls.overrides

(* ------------------------ order of a run (C20) ------------------------ *)

\* the position of an operation among the steps of run_cleaner: probe,
\* download, clean, validate, persist; 0 for a call that is no step of its own
StepRank(op) ==
    CASE op = "get_capabilities" -> 1
      [] IsDownload(op) -> 2
      [] IsClean(op) -> 3
      [] op = "validate_output" -> 4
      [] op = "to_csv" -> 5
      [] OTHER -> 0

\* the steps of a run, in the order in which they were invoked
Steps(r) == SelectSeq(r.calls, LAMBDA op : StepRank(op) > 0)

\* C20: within one run_cleaner call the steps happen in the order probe,
\* download, clean, validate, persist, each at most once and none before the
\* steps ahead of it; the output file is written only if validate_output
\* returned true, the test report passed and test_only is false; when the
\* validation fails or test_only is true, no output file is written.
C20_OrderedStepsGuardedPersist ==
    last.kind = "Run" =>
        /\ \A i \in DOMAIN Steps(last) : StepRank(Steps(last)[i]) = i
        /\ InCalls(last, "to_csv") =>
               /\ last.valid = "True"
               /\ last.tests_passed = "True"
               /\ ~last.test_only
        /\ last.saved => InCalls(last, "to_csv")
        /\ last.valid = "False" \/ last.test_only => ~InCalls(last, "to_csv")

C20_Witness ==
    /\ last.kind = "Run"
    /\ Steps(last) = <<"get_capabilities", "download_to_df", "clean_from_df",
                       "validate_output", "to_csv">>
    /\ last.valid = "True"
    /\ last.tests_passed = "True"
    /\ ~last.test_only
    /\ last.saved

(* ------------------- tests/test_runner.py: TestRunner ------------------ *)

\* A Python dict is a function on its keys; an ordered dict (one that is
\* iterated) is the sequence of its items in insertion order.
EmptyDict == [k \in {} |-> {}]

\* d.get(key, default)
Get(d, key, default) == IF key \in DOMAIN d THEN d[key] ELSE default

\* d[key] = value on an unordered dict
Put(d, key, value) ==
    [k \in (DOMAIN d) \cup {key} |-> IF k = key THEN value ELSE d[k]]

Item(key, value) == [key |-> key, value |-> value]

HasKey(items, key) == \E i \in DOMAIN items : items[i].key = key

\* items[key] = value on an ordered dict: a present key keeps its place
SetItem(items, key, value) ==
    IF HasKey(items, key)
    THEN [i \in DOMAIN items |->
             IF items[i].key = key THEN Item(key, value) ELSE items[i]]
    ELSE Append(items, Item(key, value))

\* items.update(other)
RECURSIVE Update(_, _)
Update(items, other) ==
    IF other = <<>> THEN items
    ELSE Update(SetItem(items, Head(other).key, Head(other).value), Tail(other))

\* str(e) of the exceptions a test function may raise: an exception built
\* without a message (a failed bare assert, ValueError()) has the empty text
ExceptionTexts == {"", "boom"}

\* the mappings a test function of the model may return
ResultDicts ==
    {[passed |-> TRUE, message |-> <<"ok">>, details |-> [checked |-> "all"]],
     [passed |-> FALSE, message |-> <<"bad">>, details |-> [checked |-> "all"]],
     [passed |-> TRUE],
     [message |-> <<"bad">>, details |-> [checked |-> "all"]]}

\* what calling a test function on the dataset leads to: a bool, a mapping,
\* a value of another type, or an exception
TestResults ==
    [type : {"bool"}, value : BOOLEAN]
        \cup [type : {"dict"}, items : ResultDicts]
        \cup [type : {"NoneType"}]
        \cup [type : {"raise"}, text : ExceptionTexts]

\* test keys that drop the namespace
KeyBare(ns, name) == name

\* f"standard.{name}" and f"custom.{name}"
Key(ns, name) ==
    CASE ns = "standard" /\ name = "test_a" -> "standard.test_a"
      [] ns = "standard" /\ name = "test_b" -> "standard.test_b"
      [] ns = "custom" /\ name = "test_a" -> "custom.test_a"
      [] ns = "custom" /\ name = "test_b" -> "custom.test_b"

\* k.endswith(f".{test}") for the keys and the subset entries of the model
EndsWithDot(k, test) ==
    \/ k \in {"standard.test_a", "custom.test_a"} /\ test = "test_a"
    \/ k \in {"standard.test_b", "custom.test_b"} /\ test = "test_b"

\* the functions of a module whose name starts with 'test_', as
\* inspect.getmembers lists them (sorted by name), registered under ns
RECURSIVE Discover(_, _)
Discover(ns, members) ==
    IF members = <<>> THEN <<>>
    ELSE SetItem(Discover(ns, SubSeq(members, 1, Len(members) - 1)),
                 Key(ns, members[Len(members)].key),
                 members[Len(members)].value)

\* the modules of test functions: tests/standard_tests.py, and the
\* custom_tests.py of the cleaner directory when there is one
StandardModules ==
    {<<Item("test_a", fa), Item("test_b", fb)>> : fa \in TestResults, fb \in TestResults}
CustomModules ==
    {<<>>} \cup {<<Item("test_a", fa)>> : fa \in TestResults}

\* a list given as the test_subset argument
SubsetList(entries) == [kind |-> "list", entries |-> entries]

\* the values of the test_subset argument: None (the default), or a list of
\* names, which may be empty
TestSubsets ==
    {NoValue} \cup
    {SubsetList(entries) :
        entries \in {<<>>, <<"test_a">>, <<"test_b">>, <<"test_a", "test_b">>, <<"a">>}}

\* "if test_subset": None and the empty list are false
Truthy(test_subset) ==
    test_subset.kind = "list" /\ test_subset.entries # <<>>

\* the dict comprehension that keeps the tests named by test_subset
RECURSIVE Filter(_, _)
Filter(items, test_subset) ==
    IF items = <<>> THEN <<>>
    ELSE IF \E i \in DOMAIN test_subset : EndsWithDot(Head(items).key, test_subset[i])
         THEN <<Head(items)>> \o Filter(Tail(items), test_subset)
         ELSE Filter(Tail(items), test_subset)

\* the tests run_tests selects
TestsToRun(standard_tests, custom_tests, test_subset, skip_custom, skip_standard) ==
    LET all_tests ==
            Update(IF skip_standard THEN <<>> ELSE standard_tests,
                   IF skip_custom THEN <<>> ELSE custom_tests)
    IN  IF Truthy(test_subset)
        THEN Filter(all_tests, test_subset.entries)
        ELSE all_tests

\* a mapping without 'passed' counted as a passed test
ProcessResultLenient(test_result) ==
    CASE test_result.type = "bool" ->
            [passed |-> test_result.value,
             message |-> IF test_result.value THEN <<"Passed">> ELSE <<"Failed">>,
             details |-> EmptyDict]
      [] test_result.type = "dict" ->
            [passed |-> Get(test_result.items, "passed", TRUE),
             message |-> Get(test_result.items, "message", <<>>),
             details |-> Get(test_result.items, "details", EmptyDict)]
      [] OTHER ->
            [passed |-> FALSE,
             message |-> <<"Invalid test return type: ", test_result.type>>,
             details |-> EmptyDict]

\* "Process result": the outcome recorded for a value a test returned
ProcessResult(test_result) ==
    CASE test_result.type = "bool" ->
            [passed |-> test_result.value,
             message |-> IF test_result.value THEN <<"Passed">> ELSE <<"Failed">>,
             details |-> EmptyDict]
      [] test_result.type = "dict" ->
            [passed |-> Get(test_result.items, "passed", FALSE),
             message |-> Get(test_result.items, "message", <<>>),
             details |-> Get(test_result.items, "details", EmptyDict)]
      [] OTHER ->
            [passed |-> FALSE,
             message |-> <<"Invalid test return type: ", test_result.type>>,
             details |-> EmptyDict]

\* the except block of the loop: the outcome recorded for a test that raised
Crashed(text) ==
    [passed |-> FALSE,
     message |-> <<"Test crashed: ", text>>,
     details |-> [error |-> text]]

\* an iteration whose except block records the crash without counting it
RunTestCrashUncounted(results, test_name, test_func) ==
    LET counted == [results EXCEPT !.total_tests = @ + 1] IN
    IF test_func.type = "raise"
    THEN [counted EXCEPT !.passed = FALSE,
                         !.test_details = Put(@, test_name, Crashed(test_func.text))]
    ELSE LET outcome == ProcessResult(test_func)
             recorded == [counted EXCEPT !.test_details = Put(@, test_name, outcome)]
         IN  IF outcome.passed
             THEN [recorded EXCEPT !.passed_tests = @ + 1]
             ELSE [recorded EXCEPT !.failed_tests = @ + 1, !.passed = FALSE]

\* one iteration of "for test_name, test_func in tests_to_run.items()"
RunTest(results, test_name, test_func) ==
    LET counted == [results EXCEPT !.total_tests = @ + 1] IN
    IF test_func.type = "raise"
    THEN [counted EXCEPT !.failed_tests = @ + 1,
                         !.passed = FALSE,
                         !.test_details = Put(@, test_name, Crashed(test_func.text))]
    ELSE LET outcome == ProcessResult(test_func)
             recorded == [counted EXCEPT !.test_details = Put(@, test_name, outcome)]
         IN  IF outcome.passed
             THEN [recorded EXCEPT !.passed_tests = @ + 1]
             ELSE [recorded EXCEPT !.failed_tests = @ + 1, !.passed = FALSE]

\* a loop that the first raising test ends
RestUnlessCrashed(tests_to_run) ==
    IF Head(tests_to_run).value.type = "raise" THEN <<>> ELSE Tail(tests_to_run)

\* the tests the loop goes on with after the first of tests_to_run, whether
\* that one returned or raised: the except block neither breaks nor raises
Rest(tests_to_run) == Tail(tests_to_run)

\* the loop over tests_to_run
RECURSIVE RunEach(_, _)
RunEach(results, tests_to_run) ==
    IF tests_to_run = <<>> THEN results
    ELSE RunEach(RunTest(results, Head(tests_to_run).key, Head(tests_to_run).value),
                 Rest(tests_to_run))

\* results that go on from the report of the previous call
CarriedResults ==
    IF runner.report = NoValue
    THEN [passed |-> TRUE, total_tests |-> 0, passed_tests |-> 0,
          failed_tests |-> 0, test_details |-> EmptyDict]
    ELSE runner.report

\* the results dict at the head of run_tests
NewResults ==
    [passed |-> TRUE, total_tests |-> 0, passed_tests |-> 0, failed_tests |-> 0,
     test_details |-> EmptyDict]

\* TestRunner.run_tests(df, test_subset, skip_custom, skip_standard)
RunnerRunTests(standard_tests, custom_tests, test_subset, skip_custom, skip_standard) ==
    RunEach(NewResults,
            TestsToRun(standard_tests, custom_tests, test_subset,
                       skip_custom, skip_standard))

\* the arguments of a run_tests call on the dataset
RunnerArgs ==
    [test_subset : TestSubsets, skip_custom : BOOLEAN, skip_standard : BOOLEAN]

\* TestRunner(cleaner_dir): both sets of tests are discovered
NewRunner(standard_module, custom_module) ==
    [kind |-> "TestRunner",
     standard_tests |-> Discover("standard", standard_module),
     custom_tests |-> Discover("custom", custom_module),
     args |-> NoValue, report |-> NoValue, repeated |-> FALSE]

\* a call of run_tests on the dataset with any arguments
runner_run_tests ==
    /\ runner.kind = "TestRunner"
    /\ \E args \in RunnerArgs :
          runner' = [runner EXCEPT
                        !.args = args,
                        !.report = RunnerRunTests(runner.standard_tests,
                                                  runner.custom_tests,
                                                  args.test_subset,
                                                  args.skip_custom,
                                                  args.skip_standard),
                        \* the call repeats the arguments of the call before it
                        !.repeated = (args = runner.args)]
    /\ UNCHANGED <<dirs, phase, todo, load_status, _discovered_cleaners,
                   sys_path_ext, init_py, last, persisted, cleaner, framework, batch>>

(* ----------------- tests/test_framework.py: TestRunner ----------------- *)

\* the configuration of the standard tests, in the order of the literal
StandardTests ==
    <<Item("not_empty", [type |-> "not_empty", severity |-> "error"]),
      Item("no_null_columns", [type |-> "no_null_columns", severity |-> "error"]),
      Item("duplicate_rows", [type |-> "duplicate_rows", severity |-> "warning"]),
      Item("data_types", [type |-> "data_types", severity |-> "warning"])>>

\* the test types the registry may hold
TestTypes == {StandardTests[i].value.type : i \in DOMAIN StandardTests}

\* what a registered test function does on the dataset: the functions of
\* tests/test_definitions return a mapping with 'passed', 'message' and
\* 'details'; a function may also return a bare bool, or raise
RegisteredResults ==
    {[type |-> "dict",
      items |-> [passed |-> TRUE, message |-> <<"ok">>, details |-> [checked |-> "all"]]],
     [type |-> "dict",
      items |-> [passed |-> FALSE, message |-> <<"bad">>, details |-> [checked |-> "all"]]],
     [type |-> "bool", value |-> TRUE]}
        \cup [type : {"raise"}, text : ExceptionTexts]

\* the registries auto_discover can build: any of the types, each with a
\* function of any behaviour
Registries ==
    UNION {[types -> RegisteredResults] : types \in SUBSET TestTypes}

\* the custom test specification of a cleaner (tests/test_specs/<name>.yaml):
\* none, or one test named like a standard test, of a registered or an
\* unknown type and of either severity
CustomSpecs ==
    {NoValue} \cup
    {[tests |-> <<Item("not_empty", [type |-> t, severity |-> s])>>] :
        t \in {"data_types", "row_count"}, s \in {"error", "warning"}}

\* self.test_registry.get_test(test_type): the function, or None
get_test(registry, test_type) ==
    IF test_type \in DOMAIN registry THEN registry[test_type] ELSE NoValue

\* str(e) of the TypeError of result['severity'] = severity on a value that
\* is no mapping
ItemAssignmentError == "'bool' object does not support item assignment"

\* a try block that wraps a bare bool into a mapping before it attaches the
\* severity
CallTestCoerced(test_func, severity) ==
    CASE test_func.type = "raise" -> [raised |-> TRUE, text |-> test_func.text]
      [] test_func.type = "dict" ->
            [raised |-> FALSE, result |-> Put(test_func.items, "severity", severity)]
      [] OTHER ->
            [raised |-> FALSE,
             result |-> [passed |-> test_func.value, message |-> <<"ok">>,
                         details |-> [checked |-> "all"], severity |-> severity]]

\* the try block of both loops, for a function found in the registry:
\* result = test_func(df, params); result['severity'] = severity.
\* The value is the outcome recorded, or the text of the exception raised.
CallTest(test_func, severity) ==
    CASE test_func.type = "raise" -> [raised |-> TRUE, text |-> test_func.text]
      [] test_func.type = "dict" ->
            [raised |-> FALSE, result |-> Put(test_func.items, "severity", severity)]
      [] OTHER -> [raised |-> TRUE, text |-> ItemAssignmentError]

\* the outcome the except block of _run_standard_tests records
StandardError(text) ==
    [passed |-> FALSE,
     message |-> <<"Standard test failed with error: ", text>>,
     severity |-> "error",
     details |-> [error |-> text]]

\* the outcome the except block of _run_custom_tests records
CustomError(text, test_type) ==
    [passed |-> FALSE,
     message |-> <<"Test failed with error: ", text>>,
     severity |-> "error",
     details |-> [error |-> text, test_type |-> test_type]]

\* an unknown custom type recorded as a warning only
UnknownTypeWarning(test_type) ==
    [passed |-> FALSE,
     message |-> <<"Unknown test type: ", test_type>>,
     severity |-> "warning",
     details |-> EmptyDict]

\* the outcome _run_custom_tests records for a type the registry lacks
UnknownType(test_type) ==
    [passed |-> FALSE,
     message |-> <<"Unknown test type: ", test_type>>,
     severity |-> "error",
     details |-> EmptyDict]

\* _run_standard_tests(df): the ordered dict of outcomes
RECURSIVE RunStandardTests(_, _)
RunStandardTests(registry, standard_tests) ==
    IF standard_tests = <<>> THEN <<>>
    ELSE LET test_name == Head(standard_tests).key
             test_config == Head(standard_tests).value
             test_func == get_test(registry, test_config.type)
             rest == RunStandardTests(registry, Tail(standard_tests))
         IN  IF test_func = NoValue
             THEN \* only a warning is logged
                  rest
             ELSE LET called == CallTest(test_func, test_config.severity) IN
                  <<Item(test_name,
                         IF called.raised THEN StandardError(called.text)
                         ELSE called.result)>> \o rest

\* _run_custom_tests(df, spec): the ordered dict of outcomes
RECURSIVE RunCustomTests(_, _)
RunCustomTests(registry, tests) ==
    IF tests = <<>> THEN <<>>
    ELSE LET test_name == Head(tests).key
             test_config == Head(tests).value
             test_func == get_test(registry, test_config.type)
             rest == RunCustomTests(registry, Tail(tests))
         IN  IF test_func = NoValue
             THEN <<Item(test_name, UnknownType(test_config.type))>> \o rest
             ELSE LET called == CallTest(test_func, test_config.severity) IN
                  <<Item(test_name,
                         IF called.raised
                         THEN CustomError(called.text, test_config.type)
                         ELSE called.result)>> \o rest

\* aggregation in which a failed test of any severity fails the report
AggregateOneStrict(aggregate, test_name, test_result) ==
    IF ~test_result.passed
    THEN [aggregate EXCEPT
             !.errors = Append(@, <<test_name, test_result.message>>),
             !.passed = FALSE]
    ELSE aggregate

\* the body of the loop of _aggregate_results
AggregateOne(aggregate, test_name, test_result) ==
    IF ~test_result.passed
    THEN IF test_result.severity = "error"
         THEN [aggregate EXCEPT
                  !.errors = Append(@, <<test_name, test_result.message>>),
                  !.passed = FALSE]
         ELSE [aggregate EXCEPT
                  !.warnings = Append(@, <<test_name, test_result.message>>)]
    ELSE aggregate

\* _aggregate_results(test_results, aggregate)
RECURSIVE AggregateResults(_, _)
AggregateResults(test_results, aggregate) ==
    IF test_results = <<>> THEN aggregate
    ELSE AggregateResults(Tail(test_results),
                          AggregateOne(aggregate, Head(test_results).key,
                                       Head(test_results).value))

\* TestRunner.run_tests(cleaner_name, df), given the custom specification
\* that _load_custom_spec finds for the cleaner
FrameworkRunTests(registry, custom_spec) ==
    LET results == [passed |-> TRUE, errors |-> <<>>, warnings |-> <<>>,
                    details |-> EmptyDict]
        standard_results == RunStandardTests(registry, StandardTests)
        after_standard ==
            AggregateResults(standard_results,
                             [results EXCEPT !.details = Put(@, "standard", standard_results)])
    IN  IF custom_spec # NoValue
        THEN LET custom_results == RunCustomTests(registry, custom_spec.tests) IN
             AggregateResults(custom_results,
                              [after_standard EXCEPT
                                  !.details = Put(@, "custom", custom_results)])
        ELSE after_standard

\* the cleaner names run_tests is called with: "alpha" may have a custom
\* specification, "ghost" has none
FrameworkNames == {"alpha", "ghost"}

\* _load_custom_spec(cleaner_name)
LoadCustomSpec(specs, cleaner_name) == Get(specs, cleaner_name, NoValue)

\* TestRunner(): auto_discover has filled the registry
NewFramework(registry, alpha_spec) ==
    [kind |-> "TestRunner", registry |-> registry,
     specs |-> [n \in {"alpha"} |-> alpha_spec],
     args |-> NoValue, report |-> NoValue, repeated |-> FALSE]

\* a call of run_tests for the dataset of a cleaner
framework_run_tests ==
    /\ framework.kind = "TestRunner"
    /\ \E cleaner_name \in FrameworkNames :
          framework' = [framework EXCEPT
                           !.args = [cleaner_name |-> cleaner_name],
                           !.report = FrameworkRunTests(
                                          framework.registry,
                                          LoadCustomSpec(framework.specs, cleaner_name)),
                           !.repeated = ([cleaner_name |-> cleaner_name] = framework.args)]
    /\ UNCHANGED <<dirs, phase, todo, load_status, _discovered_cleaners,
                   sys_path_ext, init_py, last, persisted, cleaner, runner, batch>>

(* ----------------------- the two test runners ------------------------- *)

InitTests ==
    /\ \/ /\ runner \in {NewRunner(sm, cm) : sm \in StandardModules, cm \in CustomModules}
          /\ framework = Idle
       \/ /\ framework \in {NewFramework(reg, cs) : reg \in Registries, cs \in CustomSpecs}
          /\ runner = Idle
    /\ dirs = [r \in Roots |-> {}]
    /\ phase = "ready"
    /\ todo = {}
    /\ load_status = [r \in Roots |-> [n \in Names |-> "unscanned"]]
    /\ _discovered_cleaners = <<>>
    /\ sys_path_ext = FALSE
    /\ init_py = {}
    /\ last = NoRun
    /\ persisted = {}
    /\ cleaner = Idle
    /\ batch = Idle

NextTests == runner_run_tests \/ framework_run_tests

\* A test runner of either module, constructed over any test functions, and
\* any sequence of run_tests calls on one dataset.
SpecTests == InitTests /\ [][NextTests]_vars

(* ------------------- properties of the test runners ------------------- *)

\* the items of an ordered dict, as a set
ItemsOf(items) == {items[i] : i \in DOMAIN items}

\* the test name a key of tests.test_runner was made from
BareName(k) ==
    CASE k \in {"standard.test_a", "custom.test_a"} -> "test_a"
      [] k \in {"standard.test_b", "custom.test_b"} -> "test_b"
      [] OTHER -> k

\* the tests a run_tests call of tests.test_runner has to run: those of the
\* namespaces that are not skipped, restricted to the names of test_subset
\* when it is a list with entries
Selected(r) ==
    {it \in (IF r.args.skip_standard THEN {} ELSE ItemsOf(r.standard_tests))
              \cup (IF r.args.skip_custom THEN {} ELSE ItemsOf(r.custom_tests)) :
        \/ ~Truthy(r.args.test_subset)
        \/ \E i \in DOMAIN r.args.test_subset.entries :
              r.args.test_subset.entries[i] = BareName(it.key)}

\* tests.test_runner has returned a report
RunnerReported == runner.kind = "TestRunner" /\ runner.report # NoValue

\* tests.test_framework has returned a report
FrameworkReported == framework.kind = "TestRunner" /\ framework.report # NoValue

\* the outcomes a report of tests.test_framework records, standard and custom
Recorded(report) ==
    ItemsOf(report.details["standard"])
        \cup (IF "custom" \in DOMAIN report.details
              THEN ItemsOf(report.details["custom"]) ELSE {})

\* the standard tests whose type the registry holds
RegisteredStandard(fw) ==
    {it \in ItemsOf(StandardTests) : it.value.type \in DOMAIN fw.registry}

\* every selected test of tests.test_runner has exactly one recorded outcome
AllSelectedRecorded ==
    /\ DOMAIN runner.report.test_details = {it.key : it \in Selected(runner)}
    /\ runner.report.total_tests = Cardinality(Selected(runner))

\* every configured test of tests.test_framework whose function exists has a
\* recorded outcome
AllConfiguredRecorded ==
    /\ {it.key : it \in ItemsOf(framework.report.details["standard"])}
          = {it.key : it \in RegisteredStandard(framework)}
    /\ LET spec == LoadCustomSpec(framework.specs, framework.args.cleaner_name) IN
       spec # NoValue =>
          /\ "custom" \in DOMAIN framework.report.details
          /\ {it.key : it \in ItemsOf(framework.report.details["custom"])}
                = {it.key : it \in ItemsOf(spec.tests)}

C14_PassedIffNoErrorFailure ==
    FrameworkReported =>
        LET report == framework.report IN
        /\ report.passed <=>
              ~\E it \in Recorded(report) :
                  it.value.severity = "error" /\ ~it.value.passed
        /\ \A it \in Recorded(report) :
              ~it.value.passed /\ it.value.severity = "warning" =>
                 /\ \E i \in DOMAIN report.warnings :
                       report.warnings[i] = <<it.key, it.value.message>>
                 /\ \A i \in DOMAIN report.errors : report.errors[i][1] # it.key
                       \/ \E other \in Recorded(report) :
                             /\ other.key = it.key
                             /\ other.value.severity = "error"
                             /\ ~other.value.passed

C14_Witness ==
    /\ FrameworkReported
    /\ framework.report.passed
    /\ framework.report.errors = <<>>
    /\ Len(framework.report.warnings) = 3
    /\ \E it \in ItemsOf(framework.report.details["custom"]) :
          ~it.value.passed /\ it.value.severity = "warning"

\* the outcome that the normalisation rules give for what a test did: a bool
\* b gives passed=b, a generic message and empty details; a mapping gives its
\* own passed, message and details, passed defaulting to false and details to
\* empty; an exception gives a failed outcome with its text in details.error
Normalised(test_result, o) ==
    CASE test_result.type = "bool" ->
            /\ o.passed = test_result.value
            /\ o.message \in {<<"Passed">>, <<"Failed">>}
            /\ o.details = EmptyDict
      [] test_result.type = "dict" ->
            /\ o.passed = ("passed" \in DOMAIN test_result.items
                              /\ test_result.items["passed"])
            /\ "message" \in DOMAIN test_result.items
                  => o.message = test_result.items["message"]
            /\ o.details = IF "details" \in DOMAIN test_result.items
                           THEN test_result.items["details"] ELSE EmptyDict
      [] test_result.type = "raise" ->
            /\ ~o.passed
            /\ o.details["error"] = test_result.text
      [] OTHER -> ~o.passed

\* C15: tests.test_runner normalises what a test function does: a bare bool,
\* a mapping (passed defaulting to false, details to empty) or a raised
\* exception, each into an outcome with passed, message and details.
C15_ReturnShapesNormalised ==
    RunnerReported =>
        \A it \in Selected(runner) :
            /\ it.key \in DOMAIN runner.report.test_details
            /\ DOMAIN runner.report.test_details[it.key] = {"passed", "message", "details"}
            /\ Normalised(it.value, runner.report.test_details[it.key])

C15_Witness ==
    /\ RunnerReported
    /\ \E b \in Selected(runner), d \in Selected(runner), e \in Selected(runner) :
          /\ b.value = [type |-> "bool", value |-> TRUE]
          /\ runner.report.test_details[b.key].passed
          /\ d.value.type = "dict" /\ "passed" \notin DOMAIN d.value.items
          /\ ~runner.report.test_details[d.key].passed
          /\ e.value = [type |-> "raise", text |-> "boom"]
          /\ runner.report.test_details[e.key].details = [error |-> "boom"]

C17_SeparateNamespaces ==
    /\ runner.kind = "TestRunner" =>
          /\ {it.key : it \in ItemsOf(runner.standard_tests)}
                = {"standard.test_a", "standard.test_b"}
          /\ {it.key : it \in ItemsOf(runner.custom_tests)} \subseteq {"custom.test_a"}
    /\ RunnerReported =>
          \A s \in Selected(runner), c \in Selected(runner) :
              /\ s \in ItemsOf(runner.standard_tests)
              /\ c \in ItemsOf(runner.custom_tests)
              /\ BareName(s.key) = BareName(c.key)
              => /\ s.key # c.key
                 /\ {s.key, c.key} \subseteq DOMAIN runner.report.test_details
                 /\ Normalised(s.value, runner.report.test_details[s.key])
                 /\ Normalised(c.value, runner.report.test_details[c.key])

C17_Witness ==
    /\ RunnerReported
    /\ runner.args.test_subset = SubsetList(<<"test_a">>)
    /\ DOMAIN runner.report.test_details = {"standard.test_a", "custom.test_a"}
    /\ runner.report.test_details["standard.test_a"].passed
    /\ ~runner.report.test_details["custom.test_a"].passed
    /\ runner.report.total_tests = 2

(* ----------------------- run_multiple (batches) ------------------------ *)

\* number of cleaner names passed to one run_multiple call
MaxBatch == 5

\* ThreadPoolExecutor(max_workers=4)
max_workers == 4

\* the i-th cleaner directory of the batch pipeline
CleanerName(i) == <<"c1", "c2", "c3", "c4", "c5", "c6", "c7", "c8">>[i]

\* the cleaners registered for the batches: in-memory cleaners like
\* cleaners/example_cleaner (download_to_df and clean_from_df)
BatchCleaners == {CleanerName(i) : i \in 1..MaxBatch}

\* the lists of names run_multiple is called with: all registered cleaners,
\* or the same list with a name that is not registered in the last place
\* and the first name once more in the place before it
BatchLists ==
    LET all == [i \in 1..MaxBatch |-> CleanerName(i)] IN
    {all, [all EXCEPT ![MaxBatch] = "ghost", ![MaxBatch - 1] = all[1]]}

\* how a run_cleaner call ended, as far as run_multiple can tell
Outcome(r) ==
    [kind |-> IF r.raised # "none" THEN "raised"
              ELSE IF r.result = NoValue THEN "none"
              ELSE "dataset",
     saved |-> r.saved]

\* the ways self.run_cleaner(name, use_disk) can end
RunOutcomes(name, use_disk) ==
    {Outcome(r) : r \in RunCleanerResults(name, use_disk, FALSE)}

NoBatch == [kind |-> "run_multiple", pc |-> "idle"]

\* the first statements of run_multiple: results = {}; with parallel, every
\* name is submitted to the executor, in the order of the list
NewBatch(cleaner_names, parallel, use_disk) ==
    [kind |-> "run_multiple", pc |-> "running",
     cleaner_names |-> cleaner_names, parallel |-> parallel, use_disk |-> use_disk,
     queue |-> [i \in DOMAIN cleaner_names |-> i],   \* runs not yet started
     \* the ways the run_cleaner call of each entry can end
     outcomes |-> [i \in DOMAIN cleaner_names |->
                      RunOutcomes(cleaner_names[i], use_disk)],
     running |-> {},                                  \* runs a worker executes
     writing |-> {},                                  \* runs inside to_csv
     done |-> <<>>,                                   \* run -> how it ended
     collected |-> {},                                \* runs the caller has handled
     results |-> EmptyDict,
     logged |-> {}]

\* an except block that lets the exception of a run leave run_multiple
CollectReraise(b, i) ==
    LET handled == [b EXCEPT !.collected = @ \cup {i}] IN
    CASE b.done[i].kind = "raised" -> [handled EXCEPT !.pc = "raised"]
      [] b.done[i].kind = "none" -> handled
      [] OTHER -> [handled EXCEPT !.results = Put(@, b.cleaner_names[i], "DataFrame")]

\* the body of both loops of run_multiple for the run i that has ended:
\* result = ...; if result is not None: results[cleaner_name] = result;
\* except Exception: log the error
Collect(b, i) ==
    LET handled == [b EXCEPT !.collected = @ \cup {i}] IN
    CASE b.done[i].kind = "raised" -> [handled EXCEPT !.logged = @ \cup {i}]
      [] b.done[i].kind = "none" -> handled
      [] OTHER -> [handled EXCEPT !.results = Put(@, b.cleaner_names[i], "DataFrame")]

\* an executor that starts a thread for every submitted run
CanStartAlways(b) == TRUE

\* the executor starts a queued run only when fewer than max_workers runs
\* are being executed
CanStart(b) == Cardinality(b.running) < max_workers

\* the mapping that the loop of parallel=False builds over the first n names
\* of the list, when the run of each name ends as outcomes tells
RECURSIVE SequentialResults(_, _, _)
SequentialResults(cleaner_names, outcomes, n) ==
    IF n = 0 THEN EmptyDict
    ELSE LET results == SequentialResults(cleaner_names, outcomes, n - 1) IN
         IF outcomes[n].kind = "dataset"
         THEN Put(results, cleaner_names[n], "DataFrame")
         ELSE results

\* the mapping discovery has built for the batches
BatchRegistry ==
    [n \in BatchCleaners |->
        [root |-> "cleaners", overrides |-> {"download_to_df", "clean_from_df"}]]

\* the file run_cleaner saves the dataset of a cleaner to:
\* Path("data/cleaned") / f"{cleaner_name}_cleaned.csv"
OutputPath(cleaner_name) == <<"data/cleaned/", cleaner_name, "_cleaned.csv">>

\* the pipeline of the batches: every cleaner of BatchCleaners is a built-in
\* cleaner that discovery has registered
InitBatch ==
    /\ dirs = [r \in Roots |-> IF r = "cleaners" THEN BatchCleaners ELSE {}]
    /\ phase = "ready"
    /\ todo = {}
    /\ load_status = [r \in Roots |-> [n \in BatchCleaners |->
                         IF r = "cleaners" THEN "ok" ELSE "unscanned"]]
    /\ _discovered_cleaners = BatchRegistry
    /\ sys_path_ext = FALSE
    /\ init_py = {}
    /\ last = NoRun
    /\ persisted = {}
    /\ cleaner = Idle
    /\ framework = Idle
    /\ runner = Idle
    /\ batch = NoBatch

\* run_multiple(cleaner_names, parallel) is called on the pipeline
CallRunMultiple ==
    /\ batch.pc = "idle"
    /\ \E cleaner_names \in BatchLists, parallel \in BOOLEAN :
          batch' = NewBatch(cleaner_names, parallel, FALSE)
    /\ UNCHANGED <<dirs, phase, todo, load_status, _discovered_cleaners,
                   sys_path_ext, init_py, last, persisted, cleaner, framework, runner>>

\* a worker thread of the executor takes the next submitted run
WorkerStart ==
    /\ batch.pc = "running"
    /\ batch.parallel
    /\ batch.queue # <<>>
    /\ CanStart(batch)
    /\ batch' = [batch EXCEPT !.queue = Tail(@),
                              !.running = @ \cup {Head(batch.queue)}]
    /\ UNCHANGED <<dirs, phase, todo, load_status, _discovered_cleaners,
                   sys_path_ext, init_py, last, persisted, cleaner, framework, runner>>

\* the run_cleaner call of a worker thread reaches "Save output": to_csv
\* opens the output file of the cleaner and writes the dataset
WorkerSave ==
    /\ batch.pc = "running"
    /\ \E i \in batch.running \ batch.writing :
          /\ \E o \in batch.outcomes[i] : o.saved
          /\ batch' = [batch EXCEPT !.writing = @ \cup {i}]
    /\ UNCHANGED <<dirs, phase, todo, load_status, _discovered_cleaners,
                   sys_path_ext, init_py, last, persisted, cleaner, framework, runner>>

\* the run_cleaner call of a worker thread ends: its future is completed
WorkerFinish ==
    /\ batch.pc = "running"
    /\ \E i \in batch.running :
          \E o \in batch.outcomes[i] :
             /\ o.saved <=> i \in batch.writing
             /\ batch' = [batch EXCEPT !.running = @ \ {i},
                                       !.writing = @ \ {i},
                                       !.done = Put(@, i, o)]
             /\ persisted' = IF o.saved
                             THEN persisted \cup {batch.cleaner_names[i]}
                             ELSE persisted
    /\ UNCHANGED <<dirs, phase, todo, load_status, _discovered_cleaners,
                   sys_path_ext, init_py, last, cleaner, framework, runner>>

\* one iteration of "for future in as_completed(futures)"
CollectCompleted ==
    /\ batch.pc = "running"
    /\ batch.parallel
    /\ \E i \in (DOMAIN batch.done) \ batch.collected :
          batch' = Collect(batch, i)
    /\ UNCHANGED <<dirs, phase, todo, load_status, _discovered_cleaners,
                   sys_path_ext, init_py, last, persisted, cleaner, framework, runner>>

\* one iteration of "for cleaner_name in cleaner_names" (parallel=False)
SequentialRun ==
    /\ batch.pc = "running"
    /\ ~batch.parallel
    /\ batch.queue # <<>>
    /\ LET i == Head(batch.queue) IN
       \E o \in batch.outcomes[i] :
          /\ batch' = Collect([batch EXCEPT !.queue = Tail(@),
                                            !.done = Put(@, i, o)], i)
          /\ persisted' = IF o.saved
                          THEN persisted \cup {batch.cleaner_names[i]}
                          ELSE persisted
    /\ UNCHANGED <<dirs, phase, todo, load_status, _discovered_cleaners,
                   sys_path_ext, init_py, last, cleaner, framework, runner>>

\* a parallel call that returns as soon as one completed run has been handled
ReturnResultsEarly ==
    /\ batch.pc = "running"
    /\ IF batch.parallel
       THEN batch.collected # {}
       ELSE batch.queue = <<>> /\ batch.collected = DOMAIN batch.cleaner_names
    /\ batch' = [batch EXCEPT !.pc = "returned"]
    /\ UNCHANGED <<dirs, phase, todo, load_status, _discovered_cleaners,
                   sys_path_ext, init_py, last, persisted, cleaner, framework, runner>>

\* return results: every run has ended and has been handled
ReturnResults ==
    /\ batch.pc = "running"
    /\ batch.queue = <<>>
    /\ batch.running = {}
    /\ batch.collected = DOMAIN batch.cleaner_names
    /\ batch' = [batch EXCEPT !.pc = "returned"]
    /\ UNCHANGED <<dirs, phase, todo, load_status, _discovered_cleaners,
                   sys_path_ext, init_py, last, persisted, cleaner, framework, runner>>

NextBatch ==
    \/ CallRunMultiple
    \/ WorkerStart
    \/ WorkerSave
    \/ WorkerFinish
    \/ CollectCompleted
    \/ SequentialRun
    \/ ReturnResults

\* Calls of run_multiple, sequential and parallel, on a pipeline with
\* MaxBatch registered cleaners.
SpecBatch == InitBatch /\ [][NextBatch]_vars

(* ------------------------ properties of batches ------------------------ *)

\* the runs of the batch that ended with a dataset
Succeeded(b) == {i \in DOMAIN b.done : b.done[i].kind = "dataset"}

\* C18: run_multiple never raises because of a failing or unknown cleaner;
\* the mapping it returns has exactly the names whose run_cleaner call
\* returned a dataset as keys, and every name of the list has been run.
C18_OnlySuccessesReturned ==
    /\ batch.pc # "raised"
    /\ batch.pc = "returned" =>
          /\ DOMAIN batch.done = DOMAIN batch.cleaner_names
          /\ DOMAIN batch.results = {batch.cleaner_names[i] : i \in Succeeded(batch)}

C18_Witness ==
    /\ batch.pc = "returned"
    /\ batch.parallel
    /\ Len(batch.cleaner_names) >= 5
    /\ Cardinality({i \in DOMAIN batch.done : batch.done[i].kind = "none"}) = 2
    /\ batch.logged = {}
    /\ Cardinality(DOMAIN batch.results) = Len(batch.cleaner_names) - 2

\* C19: with parallel=True never more than max_workers cleaner runs are
\* being executed at the same time, and a run is started only while fewer
\* than max_workers runs are being executed.
C19_AtMostFourRunning ==
    batch.pc # "idle" => Cardinality(batch.running) <= 4

C19_Witness ==
    /\ batch.pc = "running"
    /\ batch.parallel
    /\ Cardinality(batch.running) = 4
    /\ batch.queue # <<>>

(* ------------- further properties of runs and of discovery ------------- *)

\* C21: every dataset that run_cleaner returns, and every dataset it writes
\* to the output file, has at least one row (and at least one column): an
\* empty cleaned dataset is never returned or persisted.
C21_ReturnedDatasetNotEmpty ==
    last.kind = "Run" /\ (last.result # NoValue \/ last.saved)
        => last.cleaned_df.rows > 0

\* C23: during discovery a directory of either root whose name starts with
\* an underscore or a dot is never attempted for loading and never
\* registered; every other directory of a root is attempted.
C23_ReservedNamesSkipped ==
    /\ \A root \in Roots : \A n \in dirs[root] :
          startswith(n, "_") \/ startswith(n, ".") =>
              load_status[root][n] = "unscanned"
    /\ \A n \in DOMAIN _discovered_cleaners :
          ~startswith(n, "_") /\ ~startswith(n, ".")
    /\ phase = "ready" =>
          \A root \in Roots : \A n \in dirs[root] :
              ~startswith(n, "_") /\ ~startswith(n, ".") =>
                  load_status[root][n] # "unscanned"

\* the download operation that the first block of run_cleaner selects for
\* the run, "none" when its conditions select no operation
SelectedDownload(r) ==
    IF r.use_disk /\ r.capabilities["download_to_path"] THEN "download_to_path"
    ELSE IF r.capabilities["download_to_df"] THEN "download_to_df"
    ELSE "none"

\* the download of the run returned an object that no clean operation of
\* the cleaner can be given
NoUsableClean(r) ==
    \/ r.data_ref.kind = "DataFrame" /\ ~r.capabilities["clean_from_df"]
    \/ /\ r.data_ref.kind = "Path"
       /\ ~r.capabilities["clean_from_path"]
       /\ ~r.capabilities["clean_from_df"]
    \/ r.data_ref.kind = "Other"

OutcomesOf(items, test_name) ==
    {it.value : it \in {x \in ItemsOf(items) : x.key = test_name}}

\* the registry holds a function for the type and the function returns a
\* bare bool
ReturnsBareBool(fw, test_type) ==
    test_type \in DOMAIN fw.registry /\ fw.registry[test_type].type = "bool"

\* C26: in tests.test_framework a registered test function that returns a
\* value that is no mutable mapping (a bare True) is recorded as a failed
\* outcome of severity 'error', for a standard and for a custom test, and the
\* report of the run has passed = false.
C26_BareBoolFailsTheRun ==
    FrameworkReported =>
        LET spec == LoadCustomSpec(framework.specs, framework.args.cleaner_name) IN
        /\ \A it \in ItemsOf(StandardTests) :
              ReturnsBareBool(framework, it.value.type) =>
                  /\ OutcomesOf(framework.report.details["standard"], it.key) # {}
                  /\ \A o \in OutcomesOf(framework.report.details["standard"], it.key) :
                        ~o.passed /\ o.severity = "error"
                  /\ ~framework.report.passed
        /\ spec # NoValue =>
              \A it \in ItemsOf(spec.tests) :
                  ReturnsBareBool(framework, it.value.type) =>
                      /\ OutcomesOf(framework.report.details["custom"], it.key) # {}
                      /\ \A o \in OutcomesOf(framework.report.details["custom"], it.key) :
                            ~o.passed /\ o.severity = "error"
                      /\ ~framework.report.passed

\* a run whose only failure is a standard test of severity 'warning' that
\* returns a bare True
C26_Witness ==
    /\ FrameworkReported
    /\ framework.args.cleaner_name = "ghost"
    /\ DOMAIN framework.registry = TestTypes
    /\ framework.registry["duplicate_rows"] = [type |-> "bool", value |-> TRUE]
    /\ \A t \in TestTypes \ {"duplicate_rows"} :
          framework.registry[t].type = "dict" /\ framework.registry[t].items.passed
    /\ ~framework.report.passed
    /\ Len(framework.report.errors) = 1

C28_CountersAgree ==
    RunnerReported =>
        /\ runner.report.total_tests
              = runner.report.passed_tests + runner.report.failed_tests
        /\ runner.report.total_tests = Cardinality(DOMAIN runner.report.test_details)
        /\ runner.report.total_tests = Cardinality(Selected(runner))
        /\ runner.report.passed <=> runner.report.failed_tests = 0

\* a report of three tests: one passed, one crashed, one of an invalid type
C28_Witness ==
    /\ RunnerReported
    /\ runner.report.total_tests = 3
    /\ runner.report.passed_tests = 1
    /\ \E it \in Selected(runner) : it.value.type = "raise"
    /\ \E it \in Selected(runner) : it.value.type = "NoneType"

\* the tests of the namespaces that the skip flags of the call leave
NotSkipped(r) ==
    (IF r.args.skip_standard THEN {} ELSE ItemsOf(r.standard_tests))
        \cup (IF r.args.skip_custom THEN {} ELSE ItemsOf(r.custom_tests))

\* the tests of a set that an entry of the list names by its function name
NamedBy(items, entries) ==
    {it \in items : \E i \in DOMAIN entries : entries[i] = BareName(it.key)}

\* C29: when run_tests of tests.test_runner is given a test_subset, the
\* tests run are exactly the tests that are not skipped and whose key ends
\* with '.<entry>' for an entry of the subset, the entry being the whole
\* function name; when both skip flags are set or the subset matches no
\* test, the report has total_tests = 0 and passed = true.
C29_SubsetSelectsByName ==
    RunnerReported =>
        LET subset == runner.args.test_subset IN
        /\ subset.kind = "list" =>
              DOMAIN runner.report.test_details
                  = {it.key : it \in NamedBy(NotSkipped(runner), subset.entries)}
        /\ \/ runner.args.skip_standard /\ runner.args.skip_custom
           \/ subset.kind = "list" /\ NamedBy(NotSkipped(runner), subset.entries) = {}
           => runner.report.total_tests = 0 /\ runner.report.passed

\* C30: run_multiple(parallel=True) returns only after every submitted run
\* has completed, and whatever the interleaving of the workers it returns
\* the mapping that parallel=False returns when every run ends the same way:
\* the same names, each with its dataset.
C30_ParallelSameAsSequential ==
    batch.pc = "returned" /\ batch.parallel =>
        /\ batch.queue = <<>>
        /\ batch.running = {}
        /\ DOMAIN batch.done = DOMAIN batch.cleaner_names
        /\ batch.results = SequentialResults(batch.cleaner_names, batch.done,
                                             Len(batch.cleaner_names))

\* a parallel batch of more runs than workers in which every run succeeded
C30_Witness ==
    /\ batch.pc = "returned"
    /\ batch.parallel
    /\ Len(batch.cleaner_names) > max_workers
    /\ DOMAIN batch.results = BatchCleaners
    /\ Succeeded(batch) = DOMAIN batch.cleaner_names

(* ------- tests/test_definitions/builtin_tests.py on a dataset --------- *)

\* rows of the datasets given to the built-in tests
MaxFrameRows == 100

\* duplicated rows of the datasets given to the built-in tests
MaxDuplicates == 29

\* the datasets: df.duplicated() marks every row but the first of its kind,
\* so fewer rows are duplicates than there are rows; a dataset has columns
\* that are entirely null or none, and no object column that looks numeric
TestFrames ==
    {f \in [rows : 0..MaxFrameRows, duplicates : 0..MaxDuplicates,
             null_columns : 0..1, type_issues : {0}] :
        f.duplicates = 0 \/ f.duplicates < f.rows}

\* The floats of the percentage are IEEE 754 doubles: a mantissa of 53 bits
\* (most significant bit first, the first bit 1) and an exponent, of value
\* mantissa * 2^exponent; every operation rounds to nearest, ties to even.
\* Exact intermediate results are kept as digits of 9 bits (base 512).

\* the number a short bit sequence denotes
RECURSIVE BitsValue(_)
BitsValue(bits) ==
    IF bits = <<>> THEN 0
    ELSE 2 * BitsValue(SubSeq(bits, 1, Len(bits) - 1)) + bits[Len(bits)]

\* the bits of a sequence of digits of base 512
DigitBits(digits) ==
    [j \in 1..(9 * Len(digits)) |->
        (digits[((j - 1) \div 9) + 1] \div 2^(8 - ((j - 1) % 9))) % 2]

\* the digits of base 512 of a bit sequence whose length is a multiple of 9
BitDigits(bits) ==
    [i \in 1..(Len(bits) \div 9) |-> BitsValue(SubSeq(bits, 9 * (i - 1) + 1, 9 * i))]

\* a bit sequence without its leading zeros
RECURSIVE StripZeros(_)
StripZeros(bits) ==
    IF bits # <<>> /\ bits[1] = 0 THEN StripZeros(Tail(bits)) ELSE bits

\* bits + 1 on a sequence of bits, wrapping to zeros on overflow: the last 0
\* becomes 1 and the bits after it 0
Increment(bits) ==
    LET last0 == CHOOSE j \in 0..Len(bits) :
                     /\ j = 0 \/ bits[j] = 0
                     /\ \A k \in (j + 1)..Len(bits) : bits[k] = 1
    IN  [i \in 1..Len(bits) |->
            IF i < last0 THEN bits[i] ELSE IF i = last0 THEN 1 ELSE 0]

\* rounding of an exact result to a double: bits are its leading bits (54 or
\* more, the first 1), sticky tells whether the result has more non-zero
\* bits; carry is 1 when rounding up reaches the next power of two
RoundToDouble(bits, sticky) ==
    LET m == SubSeq(bits, 1, 53)
        more == sticky \/ \E i \in 55..Len(bits) : bits[i] = 1
        up == bits[54] = 1 /\ (more \/ m[53] = 1)
        inc == Increment(m)
    IN  IF ~up THEN [mantissa |-> m, carry |-> 0]
        ELSE IF inc[1] = 0 THEN [mantissa |-> [inc EXCEPT ![1] = 1], carry |-> 1]
        ELSE [mantissa |-> inc, carry |-> 0]

\* the next k digits of base 512 of the expansion of r / n (r < n), with
\* the remainder that is left
DivDigits(r, n, k) ==
    LET rem[i \in 0..k] ==
            \* the remainder after i digits
            IF i = 0 THEN r ELSE (512 * rem[i - 1]) % n
    IN  [digits |-> [i \in 1..k |-> (512 * rem[i - 1]) \div n],
         rem |-> rem[k]]

\* the zero bits of the expansion of r / n before its first 1 (0 < r < n)
RECURSIVE LeadingZeros(_, _)
LeadingZeros(r, n) ==
    IF 2 * r >= n THEN 0 ELSE 1 + LeadingZeros(2 * r, n)

\* the remainder of the expansion of r / n after its leading zeros
RECURSIVE SkipZeros(_, _)
SkipZeros(r, n) ==
    IF 2 * r >= n THEN r ELSE SkipZeros(2 * r, n)

\* duplicate_count / len(df) as a double, for 0 < d < n: the first 54 bits
\* of the quotient, rounded
Quotient(d, n) ==
    LET q == DivDigits(SkipZeros(d, n), n, 6)
        rounded == RoundToDouble(DigitBits(q.digits), q.rem # 0)
    IN  [mantissa |-> rounded.mantissa,
         exponent |-> rounded.carry - (LeadingZeros(d, n) + 53)]

\* the digits of 100 times a number given by its digits
TimesDigits100(digits) ==
    LET carry[i \in 0..Len(digits)] ==
            \* the carry out of digit i + 1
            IF i = Len(digits) THEN 0
            ELSE (100 * digits[i + 1] + carry[i + 1]) \div 512
    IN  <<carry[0]>>
            \o [i \in 1..Len(digits) |-> (100 * digits[i] + carry[i]) % 512]

\* x * 100 as a double: the exact product of the mantissa, rounded
\* (each intermediate result is bound once, as the element of a singleton)
Times100(x) ==
    LET Rounded(product, rounded) ==
            [mantissa |-> rounded.mantissa,
             exponent |-> x.exponent + (Len(product) - 53) + rounded.carry]
    IN  CHOOSE y \in
            {Rounded(product, RoundToDouble(product, FALSE)) :
                product \in
                    {StripZeros(DigitBits(scaled)) :
                        scaled \in
                            {TimesDigits100(digits) :
                                digits \in {BitDigits(<<0>> \o x.mantissa)}}}} : TRUE

\* the largest integer not above a double that is at least 0
Floor(x) ==
    IF 53 + x.exponent <= 0 THEN 0
    ELSE BitsValue(SubSeq(x.mantissa, 1, 53 + x.exponent))

\* duplicate_pct < threshold for an integer threshold: the percentage is 0
\* for an empty dataset, else the double duplicate_count / len(df) * 100
PctBelow(df, threshold) ==
    IF df.rows > 0 /\ df.duplicates > 0
    THEN Floor(Times100(Quotient(df.duplicates, df.rows))) < threshold
    ELSE 0 < threshold

\* test_not_empty(df, params)
test_not_empty(df, params) ==
    [passed |-> df.rows > 0,
     message |-> <<"DataFrame is empty">>,
     details |-> [row_count |-> df.rows]]

\* test_no_null_columns(df, params)
test_no_null_columns(df, params) ==
    [passed |-> df.null_columns = 0,
     message |-> <<"Columns are completely null: ", "null_columns">>,
     details |-> [null_columns |-> df.null_columns]]

\* test_duplicate_rows(df, params)
test_duplicate_rows(df, params) ==
    [passed |-> PctBelow(df, Get(params, "threshold", 0)),
     message |-> <<"Found ", "duplicate_count", " duplicate rows">>,
     details |-> [duplicate_count |-> df.duplicates]]

\* test_data_types(df, params)
test_data_types(df, params) ==
    [passed |-> df.type_issues = 0,
     message |-> <<"Data type issues: ", "issues">>,
     details |-> [issues |-> df.type_issues]]

\* the function auto_discover registers for a type, applied to a dataset
BuiltinTest(test_type, df, params) ==
    CASE test_type = "not_empty" -> test_not_empty(df, params)
      [] test_type = "no_null_columns" -> test_no_null_columns(df, params)
      [] test_type = "duplicate_rows" -> test_duplicate_rows(df, params)
      [] test_type = "data_types" -> test_data_types(df, params)

\* the 'params' of the standard test configuration
StandardParams(test_type) ==
    IF test_type = "duplicate_rows" THEN [threshold |-> 1] ELSE EmptyDict

\* the standard test configuration with its 'params'
StandardTestsWithParams ==
    [i \in DOMAIN StandardTests |->
        Item(StandardTests[i].key,
             [type |-> StandardTests[i].value.type,
              params |-> StandardParams(StandardTests[i].value.type),
              severity |-> StandardTests[i].value.severity])]

\* the thresholds of the duplicate test of a custom specification
Thresholds == {1, 29}

\* the custom specifications of the cleaner: none, or one duplicate test of
\* either severity
DuplicateSpecs ==
    {NoValue} \cup
    {[tests |-> <<Item("few_duplicates",
                       [type |-> "duplicate_rows", params |-> [threshold |-> t],
                        severity |-> s])>>] :
        t \in Thresholds, s \in {"error", "warning"}}

\* both loops of the test runner over the registered built-in functions:
\* result = test_func(df, params); result['severity'] = severity
RunBuiltinTests(df, tests) ==
    [i \in DOMAIN tests |->
        Item(tests[i].key,
             Put(BuiltinTest(tests[i].value.type, df, tests[i].value.params),
                 "severity", tests[i].value.severity))]

\* TestRunner.run_tests(cleaner_name, df) with the built-in tests registered
BuiltinRunTests(df, custom_spec) ==
    LET results == [passed |-> TRUE, errors |-> <<>>, warnings |-> <<>>,
                    details |-> EmptyDict]
        standard_results == RunBuiltinTests(df, StandardTestsWithParams)
        after_standard ==
            AggregateResults(standard_results,
                             [results EXCEPT !.details = Put(@, "standard", standard_results)])
    IN  IF custom_spec # NoValue
        THEN LET custom_results == RunBuiltinTests(df, custom_spec.tests) IN
             AggregateResults(custom_results,
                              [after_standard EXCEPT
                                  !.details = Put(@, "custom", custom_results)])
        ELSE after_standard

\* a test runner with the built-in tests, the dataset of a cleaner and the
\* custom specification of the cleaner
NewBuiltinRun(df, custom_spec) ==
    [kind |-> "BuiltinTests", df |-> df, spec |-> custom_spec, report |-> NoValue]

InitBuiltin ==
    /\ framework \in {NewBuiltinRun(df, cs) : df \in TestFrames, cs \in DuplicateSpecs}
    /\ runner = Idle
    /\ dirs = [r \in Roots |-> {}]
    /\ phase = "ready"
    /\ todo = {}
    /\ load_status = [r \in Roots |-> [n \in Names |-> "unscanned"]]
    /\ _discovered_cleaners = <<>>
    /\ sys_path_ext = FALSE
    /\ init_py = {}
    /\ last = NoRun
    /\ persisted = {}
    /\ cleaner = Idle
    /\ batch = Idle

\* run_tests is called for the dataset
framework_run_builtin_tests ==
    /\ framework.kind = "BuiltinTests"
    /\ framework.report = NoValue
    /\ framework' = [framework EXCEPT
                        !.report = BuiltinRunTests(framework.df, framework.spec)]
    /\ UNCHANGED <<dirs, phase, todo, load_status, _discovered_cleaners,
                   sys_path_ext, init_py, last, persisted, cleaner, runner, batch>>

NextBuiltin == framework_run_builtin_tests

\* The built-in tests of tests/test_definitions applied to any dataset of up
\* to MaxFrameRows rows, under the standard configuration and any custom
\* duplicate test.
SpecBuiltin == InitBuiltin /\ [][NextBuiltin]_vars

\* the report of the built-in tests has been returned
BuiltinReported == framework.kind = "BuiltinTests" /\ framework.report # NoValue

\* 100 * d / n (0 for an empty dataset) is strictly below the threshold
ExactlyBelow(df, threshold) ==
    IF df.rows > 0 THEN 100 * df.duplicates < threshold * df.rows
    ELSE 0 < threshold

\* C24: duplicate_rows passes exactly when 100 * d / n (0 for an empty
\* dataset) is strictly below the threshold; for 100 rows with 3 duplicates
\* and threshold 1 it fails while not_empty and no_null_columns pass; and a
\* failed duplicate test makes the report fail only when it is configured
\* with severity 'error' (the standard configuration has 'warning').
C24_DuplicateThreshold ==
    BuiltinReported =>
        LET df == framework.df
            standard == framework.report.details["standard"]
            Outcome1(items, test_name) == CHOOSE o \in OutcomesOf(items, test_name) : TRUE
            duplicate_rows == Outcome1(standard, "duplicate_rows")
        IN  /\ duplicate_rows.passed <=> ExactlyBelow(df, 1)
            /\ df.rows = 100 /\ df.duplicates = 3 /\ df.null_columns = 0 =>
                  /\ ~duplicate_rows.passed
                  /\ Outcome1(standard, "not_empty").passed
                  /\ Outcome1(standard, "no_null_columns").passed
            /\ framework.spec = NoValue /\ df.rows > 0 /\ df.null_columns = 0 =>
                  framework.report.passed
            /\ framework.spec # NoValue =>
                  LET few == Outcome1(framework.report.details["custom"], "few_duplicates")
                      config == framework.spec.tests[1].value
                  IN  /\ few.passed <=> ExactlyBelow(df, config.params.threshold)
                      /\ df.rows > 0 /\ df.null_columns = 0 =>
                            (framework.report.passed <=>
                                few.passed \/ config.severity # "error")

\* C22: after construction no call of the pipeline changes the mapping of
\* discovered cleaners, and the concurrent workers of a batch never write
\* the same mutable structure: no two of them write the same output file at
\* the same time.
C22_RegistryFrozenNoSharedWrites ==
    batch.pc # "idle" =>
        /\ _discovered_cleaners = BatchRegistry
        /\ \A i \in batch.writing : \A j \in batch.writing :
              i # j => OutputPath(batch.cleaner_names[i])
                          # OutputPath(batch.cleaner_names[j])

====
